---- MODULE Spec2Model ----
(***************************************************************************)
(* Redirect-existence Bloom filter of the Sitecore / Next.js template:     *)
(* SimpleBloomFilter (add / has / toJSON / fromJSON / getHashes),          *)
(* createBloomFilter, and the Edge Config redirects middleware that        *)
(* queries the published filter.                                           *)
(*                                                                         *)
(* Strings are sequences of UTF-16 code units.  JavaScript numbers that    *)
(* the code can produce and that are not integers (NaN, Infinity, null,    *)
(* undefined) are the named values below.  Array objects live in `heap`,   *)
(* so that two objects holding the same array are visible as such.         *)
(***************************************************************************)
EXTENDS Integers, Sequences, FiniteSets, TLC

(***************************************************************************)
(* Bounds of the model.                                                    *)
(***************************************************************************)
MaxKeys == 2          \* longest keys array handed to createBloomFilter
MaxSize == 3          \* largest size handed directly to the constructor
MaxHashCount == 2     \* largest hashFunctions handed directly to the constructor
MaxCycles == 2        \* fromJSON calls followed in one run

(***************************************************************************)
(* Strings.                                                                *)
(***************************************************************************)
Slash == 47           \* "/"
Question == 63        \* "?"

S_root == <<47>>                 \* "/"
S_a == <<47, 97>>                \* "/a"
S_aSlash == <<47, 97, 47>>       \* "/a/"
S_b == <<47, 98>>                \* "/b"
S_bQuery == <<47, 98, 63, 120>>  \* "/b?x"
S_c == <<47, 99>>                \* "/c"
S_empty == <<>>                  \* ""
\* "/products": its hash wraps to a negative 32-bit value for i = 0
S_products == <<47, 112, 114, 111, 100, 117, 99, 116, 115>>
\* "polygenelubricants": its hash is the minimum 32-bit integer for i = 0
S_poly == <<112, 111, 108, 121, 103, 101, 110, 101, 108, 117, 98, 114,
            105, 99, 97, 110, 116, 115>>

\* the keys the filter is exercised with
Keys == {S_a, S_aSlash, S_empty}

(***************************************************************************)
(* JavaScript values outside the integers.                                 *)
(***************************************************************************)
NaN == -999999
Infinity == 999999
Null == -999998
Undefined == -999997

IsInt(v) == v \notin {NaN, Infinity, Null, Undefined}

(***************************************************************************)
(* 32-bit arithmetic of getHashes.  A 32-bit word is kept as two 16-bit    *)
(* limbs <<hi, lo>> (its unsigned value is hi * 65536 + lo).               *)
(***************************************************************************)
Half == 65536

\* ((hash << 5) - hash + charCode + i) | 0 : 31 * hash + charCode + i, wrapped
HashStep(h, c, i) ==
    LET lo == 31 * h[2] + c + i
        hi == 31 * h[1] + (lo \div Half)
    IN  <<hi % Half, lo % Half>>

RECURSIVE HashAcc(_, _, _, _)
\* the inner loop over j, from position j (1-based) with accumulator h
HashAcc(element, i, j, h) ==
    IF j > Len(element) THEN h
    ELSE HashAcc(element, i, j + 1, HashStep(h, element[j], i))

\* the word is negative as a signed 32-bit integer
IsNegative(h) == h[1] >= 32768

\* Math.abs of the signed value, as limbs (2^31 for the minimum integer)
AbsLimbs(h) ==
    IF ~IsNegative(h) THEN h
    ELSE LET lo == (Half - h[2]) % Half
             hi == (Half - 1 - h[1] + (IF h[2] = 0 THEN 1 ELSE 0)) % Half
         IN  <<hi, lo>>

\* the same with a 32-bit absolute value, which leaves the minimum integer
\* negative
AbsModInt32(h, len) ==
    IF len = 0 THEN NaN
    ELSE LET a == AbsLimbs(h)
             r == (((a[1] % len) * (Half % len)) + (a[2] % len)) % len
         IN  IF h = <<32768, 0>> THEN -r ELSE r

\* Math.abs(hash) % length ; NaN when length is 0
AbsMod(h, len) ==
    IF len = 0 THEN NaN
    ELSE LET a == AbsLimbs(h)
         IN  (((a[1] % len) * (Half % len)) + (a[2] % len)) % len

\* number of iterations of `for (let i = 0; i < hashFunctions; i++)`
LoopCount(k) == IF IsInt(k) /\ k > 0 THEN k ELSE 0

\* getHashes: the sequence of hashFunctions indices (0-based, or NaN)
getHashes(element, len, k) ==
    [n \in 1..LoopCount(k) |-> AbsMod(HashAcc(element, n - 1, 1, <<0, 0>>), len)]


(***************************************************************************)
(* SimpleBloomFilter on the bits of one array.  A bit array is a sequence  *)
(* (position p holds index p - 1).                                         *)
(***************************************************************************)
\* `new Array(size)` throws a RangeError
ArrayThrows(size) == ~IsInt(size) \/ size < 0

\* constructor: new Array(size).fill(0)
Zeros(size) == [p \in 1..size |-> 0]

\* an index that names an element of an array of this length
InRange(idx, len) == IsInt(idx) /\ idx >= 0 /\ idx < len

\* add, with every index but the last (a loop that stops one short)
AddBitsShort(bits, k, element) ==
    LET hs == getHashes(element, Len(bits), k)
    IN  [p \in 1..Len(bits) |->
            IF \E n \in 1..(Len(hs) - 1) : hs[n] = p - 1 THEN 1 ELSE bits[p]]

\* add that rebuilds the array from the element alone, clearing the rest
AddBitsReset(bits, k, element) ==
    LET hs == getHashes(element, Len(bits), k)
    IN  [p \in 1..Len(bits) |->
            IF \E n \in 1..Len(hs) : hs[n] = p - 1 THEN 1 ELSE 0]

\* add that flips the hashed positions instead of setting them
AddBitsToggle(bits, k, element) ==
    LET hs == getHashes(element, Len(bits), k)
    IN  [p \in 1..Len(bits) |->
            IF \E n \in 1..Len(hs) : hs[n] = p - 1 THEN 1 - bits[p] ELSE bits[p]]

\* add that also sets the position after each hashed one
AddBitsSpill(bits, k, element) ==
    LET hs == getHashes(element, Len(bits), k)
    IN  [p \in 1..Len(bits) |->
            IF \E n \in 1..Len(hs) : hs[n] = p - 1 \/ hs[n] = p - 2 THEN 1 ELSE bits[p]]

\* add: this.bitArray[hash] = 1 for every hash of the element
AddBits(bits, k, element) ==
    LET hs == getHashes(element, Len(bits), k)
    IN  [p \in 1..Len(bits) |->
            IF \E n \in 1..Len(hs) : hs[n] = p - 1 THEN 1 ELSE bits[p]]

\* has: false as soon as one hashed position holds 0 (an index outside the
\* array reads undefined, which is not 0)
HasBits(bits, k, element) ==
    LET hs == getHashes(element, Len(bits), k)
    IN  \A n \in 1..Len(hs) :
            ~(InRange(hs[n], Len(bits)) /\ bits[hs[n] + 1] = 0)

(***************************************************************************)
(* createBloomFilter.  An error rate is given in ten-thousandths; the      *)
(* logarithms are in millionths.                                           *)
(***************************************************************************)
RateUnit == 10000
Micro == 1000000
Ln2Micro == 693147       \* Math.log(2)
Ln2SqMicro == 480453     \* Math.log(2) ** 2

\* Math.log(errorRate) for the positive rates of the model
LnMicro(r) ==
    CASE r = 1 -> -9210340        \* 0.0001
      [] r = 5000 -> -693147      \* 0.5
      [] r = 10000 -> 0           \* 1
      [] r = 12000 -> 182322      \* 1.2
      [] r = 20000 -> 693147      \* 2

PositiveRates == {1, 5000, 10000, 12000, 20000}
ErrorRates == PositiveRates \cup {0, -5000}
ValidRate(r) == 0 < r /\ r < RateUnit

\* Math.ceil(a / b) for b > 0
CeilDiv(a, b) == -((-a) \div b)

\* size = Math.ceil(-(keys.length * Math.log(errorRate)) / Math.log(2) ** 2)
OptimalSize(n, r) ==
    IF r < 0 THEN NaN
    ELSE IF r = 0 THEN (IF n = 0 THEN NaN ELSE Infinity)
    ELSE CeilDiv(-(n * LnMicro(r)), Ln2SqMicro)

\* hashFunctions = Math.ceil((size / keys.length) * Math.log(2))
OptimalHashes(size, n) ==
    IF ~IsInt(size) THEN size
    ELSE IF n = 0 THEN (IF size = 0 THEN NaN ELSE Infinity)
    ELSE CeilDiv(size * Ln2Micro, n * Micro)

RECURSIVE AddAll(_, _, _, _)
\* for (const key of keys) bloomFilter.add(key), from position j
AddAll(bits, k, keys, j) ==
    IF j > Len(keys) THEN bits
    ELSE AddAll(AddBits(bits, k, keys[j]), k, keys, j + 1)

\* createBloomFilter(keys, errorRate): what it returns, or that it threw
createBloomFilter(keys, r) ==
    LET size == OptimalSize(Len(keys), r)
        hashFunctions == OptimalHashes(size, Len(keys))
    IN  IF ArrayThrows(size)
        THEN [threw |-> TRUE, bitArray |-> <<>>, hashFunctions |-> hashFunctions]
        ELSE [threw |-> FALSE,
              bitArray |-> AddAll(Zeros(size), hashFunctions, keys, 1),
              hashFunctions |-> hashFunctions]


(***************************************************************************)
(* State.                                                                  *)
(***************************************************************************)
VARIABLES
    heap,      \* array objects: reference -> bit array
    f,         \* a filter made by `new SimpleBloomFilter(size, hashFunctions)`
    g,         \* the filter last returned by SimpleBloomFilter.fromJSON
    rec,       \* the record last returned by toJSON or createBloomFilter
    build,     \* the createBloomFilter call made, and how it ended
    addedF,    \* history: keys given to f.add
    addedG,    \* history: keys given to add on g or on the filter g came from
    recFor,    \* history: whose current state rec was taken from
    gSync,     \* history: g came from f by toJSON/fromJSON and had the same adds since
    cycles,    \* history: fromJSON calls made
    store,     \* Edge Config: what is stored under the site's name
    published, \* history: the normalized keys of the snapshot in the store
    last,      \* the last request handled since the store changed, and what was done
    edgeConfig, \* Edge Config as the webhook sees it: key -> stored value
    run        \* the webhook request being handled, and how far it is

filterVars == <<heap, f, g, rec, build, addedF, addedG, recFor, gSync, cycles>>
redirectVars == <<store, published, last>>
webhookVars == <<edgeConfig, run>>
vars == <<filterVars, redirectVars, webhookVars>>

\* no object
NullObj == [bitArray |-> 0, hashFunctions |-> 0]
NoBuild == [status |-> "none", keys |-> <<>>, rate |-> 0]

ArrIds == 1..4

\* the elements of a sequence
Range(s) == {s[n] : n \in DOMAIN s}

\* sequences over S of length at most n
SeqsUpTo(S, n) == UNION {[1..len -> S] : len \in 0..n}

\* the arrays still referenced by an object of the program
Roots(ff, gg, rr) == {ff.bitArray, gg.bitArray, rr.bitArray} \ {0}

\* the heap without the arrays nothing references
Keep(h, refs) == [id \in (DOMAIN h) \cap refs |-> h[id]]

\* the reference a new array gets
NewRef(refs) == CHOOSE id \in ArrIds \ refs : \A other \in ArrIds \ refs : id <= other

(***************************************************************************)
(* SimpleBloomFilter on objects.                                           *)
(***************************************************************************)
\* SimpleBloomFilter.has
has(h, filter, element) == HasBits(h[filter.bitArray], filter.hashFunctions, element)

\* SimpleBloomFilter.add: the heap afterwards
add(h, filter, element) ==
    [h EXCEPT ![filter.bitArray] = AddBits(@, filter.hashFunctions, element)]

\* SimpleBloomFilter.toJSON: the record holds the filter's own array
toJSON(filter) == [bitArray |-> filter.bitArray, hashFunctions |-> filter.hashFunctions]

\* JSON.stringify of a number: NaN and Infinity are written as null
JsonNumber(v) == IF v \in {NaN, Infinity} THEN Null ELSE v

\* JSON.stringify of a record: the text holds the array's elements
Stringify(h, r) ==
    [bitArray |-> h[r.bitArray], hashFunctions |-> JsonNumber(r.hashFunctions)]

\* fromJSON, keeping the array the constructor made (line 74 left out)
fromJSONFresh(json, fresh) ==
    [bitArray |-> fresh, hashFunctions |-> json.hashFunctions]

\* SimpleBloomFilter.fromJSON on a record whose array is json.bitArray; the
\* constructor's array `fresh` is replaced by the record's
fromJSON(json, fresh) ==
    LET filter == [bitArray |-> fresh, hashFunctions |-> json.hashFunctions]
    IN  [filter EXCEPT !.bitArray = json.bitArray]

(***************************************************************************)
(* Values of the Edge Config store and of a handled request.               *)
(***************************************************************************)
\* nothing is stored under the site's name
Absent == [kind |-> "absent", bitArray |-> <<>>, hashFunctions |-> 0]

\* no request was handled yet
NoRequest ==
    [handled |-> FALSE, variant |-> "none", url |-> <<>>, fetch |-> "none", has |-> "none",
     lookups |-> 0, escaped |-> FALSE, response |-> "none"]

\* the items sent with a PATCH: upserts in order, and the keys to delete
NoItems == [upsert |-> <<>>, delete |-> {}]

\* no webhook request is being handled
NoRun ==
    [pc |-> "idle", site |-> "none", redirects |-> <<>>, config |-> <<>>,
     items |-> NoItems, result |-> "none", status |-> 0]

InitWebhookVars ==
    /\ edgeConfig = <<>>
    /\ run = NoRun

InitRedirectVars ==
    /\ store = Absent
    /\ published = {}
    /\ last = NoRequest

(***************************************************************************)
(* Operations on filters.                                                  *)
(***************************************************************************)
InitFilterVars ==
    /\ heap = <<>>
    /\ f = NullObj
    /\ g = NullObj
    /\ rec = NullObj
    /\ build = NoBuild
    /\ addedF = {}
    /\ addedG = {}
    /\ recFor = "none"
    /\ gSync = FALSE
    /\ cycles = 0

InitFilter ==
    /\ InitFilterVars
    /\ InitRedirectVars
    /\ InitWebhookVars

Fresh == f = NullObj /\ build.status = "none"

\* new SimpleBloomFilter(size, hashFunctions); the constructor checks nothing,
\* and createBloomFilter can hand it size 0 and hashFunctions 0 or NaN
Construct(size, k) ==
    /\ Fresh
    /\ ~ArrayThrows(size)
    /\ heap' = (1 :> Zeros(size))
    /\ f' = [bitArray |-> 1, hashFunctions |-> k]
    /\ UNCHANGED <<g, rec, build, addedF, addedG, recFor, gSync, cycles, redirectVars, webhookVars>>

\* createBloomFilter(keys, errorRate)
Build(keys, r) ==
    /\ Fresh
    /\ LET res == createBloomFilter(keys, r)
       IN  IF res.threw
           THEN /\ build' = [status |-> "threw", keys |-> keys, rate |-> r]
                /\ UNCHANGED <<heap, rec, recFor>>
           ELSE /\ build' = [status |-> "returned", keys |-> keys, rate |-> r]
                /\ heap' = (1 :> res.bitArray)
                /\ rec' = [bitArray |-> 1, hashFunctions |-> res.hashFunctions]
                /\ recFor' = "build"
    /\ UNCHANGED <<f, g, addedF, addedG, gSync, cycles, redirectVars, webhookVars>>

\* f.add(key)
AddF(key) ==
    /\ f # NullObj
    /\ heap' = add(heap, f, key)
    /\ addedF' = addedF \cup {key}
    /\ recFor' = IF recFor = "none" THEN "none" ELSE "stale"
    /\ gSync' = FALSE
    /\ UNCHANGED <<f, g, rec, build, addedG, cycles, redirectVars, webhookVars>>

\* g.add(key)
AddG(key) ==
    /\ g # NullObj
    /\ heap' = add(heap, g, key)
    /\ addedG' = addedG \cup {key}
    /\ recFor' = "stale"
    /\ gSync' = FALSE
    /\ UNCHANGED <<f, g, rec, build, addedF, cycles, redirectVars, webhookVars>>

\* f.add(key); g.add(key)
AddBoth(key) ==
    /\ f # NullObj
    /\ g # NullObj
    /\ heap' = add(add(heap, f, key), g, key)
    /\ addedF' = addedF \cup {key}
    /\ addedG' = addedG \cup {key}
    /\ recFor' = "stale"
    /\ UNCHANGED <<f, g, rec, build, gSync, cycles, redirectVars, webhookVars>>

\* rec = f.toJSON()
ToJSONF ==
    /\ f # NullObj
    /\ rec' = toJSON(f)
    /\ recFor' = "f"
    /\ heap' = Keep(heap, Roots(f, g, rec'))
    /\ UNCHANGED <<f, g, build, addedF, addedG, gSync, cycles, redirectVars, webhookVars>>

\* rec = g.toJSON()
ToJSONG ==
    /\ g # NullObj
    /\ rec' = toJSON(g)
    /\ recFor' = "g"
    /\ heap' = Keep(heap, Roots(f, g, rec'))
    /\ UNCHANGED <<f, g, build, addedF, addedG, gSync, cycles, redirectVars, webhookVars>>

\* the history of a filter made from rec
FromRec ==
    /\ addedG' = CASE recFor = "f" -> addedF
                   [] recFor = "g" -> addedG
                   [] recFor = "build" -> Range(build.keys)
                   [] OTHER -> {}
    /\ gSync' = CASE recFor = "f" -> TRUE
                  [] recFor = "g" -> gSync
                  [] OTHER -> FALSE
    /\ cycles' = cycles + 1

\* g = SimpleBloomFilter.fromJSON(rec)
FromJSONObject ==
    /\ rec # NullObj
    /\ cycles < MaxCycles
    /\ LET fresh == NewRef(Roots(f, NullObj, rec))
           made == fromJSON(rec, fresh)
           h1 == (fresh :> Zeros(Len(heap[rec.bitArray]))) @@ heap
       IN  /\ g' = made
           /\ heap' = Keep(h1, Roots(f, made, rec))
    /\ FromRec
    /\ UNCHANGED <<f, rec, build, addedF, recFor, redirectVars, webhookVars>>

\* g = SimpleBloomFilter.fromJSON(JSON.stringify(rec)): JSON.parse makes a
\* new array `parsed` with the elements written in the text
FromJSONString ==
    /\ rec # NullObj
    /\ cycles < MaxCycles
    /\ LET text == Stringify(heap, rec)
           parsed == NewRef(Roots(f, NullObj, rec))
           fresh == NewRef(Roots(f, NullObj, rec) \cup {parsed})
           json == [bitArray |-> parsed, hashFunctions |-> text.hashFunctions]
           made == fromJSON(json, fresh)
           h1 == (fresh :> Zeros(Len(text.bitArray))) @@ (parsed :> text.bitArray) @@ heap
       IN  /\ g' = made
           /\ heap' = Keep(h1, Roots(f, made, rec))
    /\ FromRec
    /\ UNCHANGED <<f, rec, build, addedF, recFor, redirectVars, webhookVars>>

NextFilter ==
    \/ \E size \in 0..MaxSize, k \in (0..MaxHashCount) \cup {NaN} : Construct(size, k)
    \/ \E keys \in SeqsUpTo(Keys, MaxKeys), r \in ErrorRates : Build(keys, r)
    \/ \E key \in Keys : AddF(key)
    \/ \E key \in Keys : AddG(key)
    \/ \E key \in Keys : AddBoth(key)
    \/ ToJSONF
    \/ ToJSONG
    \/ FromJSONObject
    \/ FromJSONString

SpecFilter == InitFilter /\ [][NextFilter]_vars


(***************************************************************************)
(* Producer and consumer of the published filter.                          *)
(***************************************************************************)
MaxPatterns == 2      \* most redirects of one published snapshot

\* the redirect patterns the content API can hold
Patterns == {S_a, S_aSlash, S_bQuery, S_root}

\* the URLs requested
Urls == {S_a, S_aSlash, S_b, S_bQuery, S_c, S_root}

\* the error rates the producer builds with
PublishRates == {1, 5000}

RECURSIVE BeforeQuery(_)
\* pattern.split("?")[0]
BeforeQuery(s) ==
    IF s = <<>> \/ Head(s) = Question THEN <<>>
    ELSE <<Head(s)>> \o BeforeQuery(Tail(s))

RECURSIVE StripTrailingSlashes(_)
\* .replace(/\/+$/, "")
StripTrailingSlashes(s) ==
    IF s # <<>> /\ s[Len(s)] = Slash
    THEN StripTrailingSlashes(SubSeq(s, 1, Len(s) - 1))
    ELSE s

\* the producer's key for a redirect pattern
cleanPattern(pattern) == StripTrailingSlashes(BeforeQuery(pattern))

\* req.nextUrl.pathname: the URL's path, without its query string
Pathname(url) == IF BeforeQuery(url) = <<>> THEN S_root ELSE BeforeQuery(url)

\* the kinds of stored value fromJSON throws on: text that does not parse,
\* and a record without bitArray (bitArray.length of undefined)
FromJSONThrows(stored) == stored.kind \in {"badText", "noBitArray"}

\* what getExistsRedirect did: whether it threw, whether it returned a
\* redirect, what has answered, how often the exact-match lookup was called
Outcome(threw, found, hasAnswer, lookups) ==
    [threw |-> threw, found |-> found, has |-> hasAnswer, lookups |-> lookups]

\* super.getExistsRedirect: the exact-match lookup, which finds a redirect,
\* finds none, or throws
Lookup(hasAnswer, lookupResult) ==
    Outcome(lookupResult = "throws", lookupResult = "found", hasAnswer, 1)

\* the filter a request gets from the stored value, and its has answer
StoredHas(stored, pathname) ==
    LET h == (1 :> stored.bitArray) @@ (2 :> Zeros(Len(stored.bitArray)))
        json == [bitArray |-> 1, hashFunctions |-> stored.hashFunctions]
    IN  has(h, fromJSON(json, 2), pathname)

\* getExistsRedirect that goes on to the lookup whatever has answers
getExistsRedirectAlways(url, stored, fetch, lookupResult) ==
    IF fetch = "error" THEN Outcome(TRUE, FALSE, "none", 0)
    ELSE IF stored.kind = "absent" THEN Outcome(FALSE, FALSE, "none", 0)
    ELSE IF FromJSONThrows(stored) THEN Outcome(TRUE, FALSE, "none", 0)
    ELSE Lookup(IF StoredHas(stored, Pathname(url)) THEN "true" ELSE "false",
                lookupResult)

\* getExistsRedirect (Bloom filter variant)
getExistsRedirect(url, stored, fetch, lookupResult) ==
    IF fetch = "error" THEN Outcome(TRUE, FALSE, "none", 0)
    ELSE IF stored.kind = "absent" THEN Outcome(FALSE, FALSE, "none", 0)
    ELSE IF FromJSONThrows(stored) THEN Outcome(TRUE, FALSE, "none", 0)
    ELSE IF StoredHas(stored, Pathname(url)) THEN Lookup("true", lookupResult)
    ELSE Outcome(FALSE, FALSE, "false", 0)

\* getExistsRedirect (per-path variant): the entry stored under the hashed
\* path is read and parsed; no filter and no further lookup
getExistsRedirectPerPath(fetch, entry) ==
    IF fetch = "error" THEN Outcome(TRUE, FALSE, "none", 0)
    ELSE IF entry = "absent" THEN Outcome(FALSE, FALSE, "none", 0)
    ELSE IF entry = "badText" THEN Outcome(TRUE, FALSE, "none", 0)
    ELSE Outcome(FALSE, TRUE, "none", 0)

\* redirectsHandler: processRedirectRequest of the base middleware, which
\* answers with a redirect when getExistsRedirect returned one and with
\* `res || NextResponse.next()` when it returned nothing; an exception
\* passes through
redirectsHandler(r) == [r EXCEPT !.found = r.found /\ ~r.threw]

\* the handler without its try/catch
getHandlerNoCatch(existsRedirect) ==
    LET r == redirectsHandler(existsRedirect)
    IN  [escaped |-> r.threw,
         response |-> IF r.threw THEN "none" ELSE IF r.found THEN "redirect" ELSE "next",
         has |-> r.has, lookups |-> r.lookups]

\* the handler getHandler returns, given what getExistsRedirect does in this
\* request: try { return await redirectsHandler } catch { return res || next() }
getHandler(existsRedirect) ==
    LET r == redirectsHandler(existsRedirect)
    IN  [escaped |-> FALSE,
         response |-> IF r.threw THEN "next" ELSE IF r.found THEN "redirect" ELSE "next",
         has |-> r.has, lookups |-> r.lookups]

RECURSIVE ListOf(_)
\* the redirects of a set of patterns, as the list the content API returns
ListOf(S) ==
    IF S = {} THEN <<>>
    ELSE LET first == CHOOSE x \in S : \A y \in S : Len(x) <= Len(y)
         IN  <<first>> \o ListOf(S \ {first})

\* the lists of at most n redirect patterns
PatternLists(n) == {ListOf(S) : S \in {T \in SUBSET Patterns : Cardinality(T) <= n}}

\* producer: normalize the patterns, build the filter, upsert it under the
\* site's name
Publish(patterns, r) ==
    /\ LET keys == [n \in DOMAIN patterns |-> cleanPattern(patterns[n])]
           res == createBloomFilter(keys, r)
       IN  /\ ~res.threw
           /\ store' = [kind |-> "record", bitArray |-> res.bitArray,
                        hashFunctions |-> JsonNumber(res.hashFunctions)]
           /\ published' = Range(keys)
    /\ last' = NoRequest
    /\ UNCHANGED <<filterVars, webhookVars>>

\* the value under the site's name is removed, or replaced by one that is
\* no filter record
Tamper(kind) ==
    /\ store' = CASE kind = "absent" -> Absent
                  [] kind = "noHashFunctions" ->
                        [kind |-> kind, bitArray |-> store.bitArray, hashFunctions |-> Undefined]
                  [] OTHER -> [kind |-> kind, bitArray |-> <<>>, hashFunctions |-> store.hashFunctions]
    /\ store' # store
    /\ published' = {}
    /\ last' = NoRequest
    /\ UNCHANGED <<filterVars, webhookVars>>

\* one request through the handler of the per-path middleware; `entry` is
\* what Edge Config holds under the request's hashed path
HandlePerPath(url, fetch, entry) ==
    /\ LET r == getHandler(getExistsRedirectPerPath(fetch, entry))
       IN  last' = [handled |-> TRUE, variant |-> "perPath", url |-> url, fetch |-> fetch,
                    has |-> r.has, lookups |-> r.lookups,
                    escaped |-> r.escaped, response |-> r.response]
    /\ UNCHANGED <<store, published, filterVars, webhookVars>>

\* one request through the handler of the Bloom filter middleware
Handle(url, fetch, lookupResult) ==
    /\ LET r == getHandler(getExistsRedirect(url, store, fetch, lookupResult))
       IN  last' = [handled |-> TRUE, variant |-> "bloom", url |-> url, fetch |-> fetch,
                    has |-> r.has, lookups |-> r.lookups,
                    escaped |-> r.escaped, response |-> r.response]
    /\ UNCHANGED <<store, published, filterVars, webhookVars>>

InitRedirects ==
    /\ InitFilterVars
    /\ InitRedirectVars
    /\ InitWebhookVars

NextRedirects ==
    \/ \E patterns \in PatternLists(MaxPatterns), r \in PublishRates :
          Publish(patterns, r)
    \/ \E kind \in {"absent", "badText", "noBitArray", "noHashFunctions"} : Tamper(kind)
    \/ \E url \in Urls, fetch \in {"ok", "error"},
          lookupResult \in {"found", "none", "throws"} :
          Handle(url, fetch, lookupResult)
    \/ \E url \in Urls, fetch \in {"ok", "error"},
          entry \in {"absent", "redirect", "badText"} :
          HandlePerPath(url, fetch, entry)

SpecRedirects == InitRedirects /\ [][NextRedirects]_vars

(***************************************************************************)
(* The redirect webhook: Sitecore's redirects are written to Edge Config   *)
(* as one entry per redirect, keyed by the site name and the hashed path.  *)
(***************************************************************************)
MaxRedirects == 2

\* the sites that share one Edge Config store
Sites == {"site", "other"}

\* redirect targets
Targets == {1, 2}

\* hashPath: the SHA-1 digest of the path in hexadecimal
hashPath(path) ==
    CASE path = S_a -> "2256c6ac80d3eb2693897a53c615c4840981e5aa"
      [] path = S_b -> "25c8e1f6d41c229df676ec805640fc7d09925006"

\* `${SITECORE_SITE_NAME}_${redirectKey}`: the site name, then the hash
RedirectKey(site, redirect) == <<site, hashPath(cleanPattern(redirect.pattern))>>

\* the key the Bloom filter snapshot of a site is stored under: the site name
SnapshotKey(site) == <<site>>

\* JSON.stringify(redirect)
Serialize(redirect) == <<"pattern", redirect.pattern, "target", redirect.target>>

\* a stored Bloom filter snapshot
SnapshotValue == <<"bitArray", <<1>>, "hashFunctions", 1>>

\* the patterns of the redirects of a site, in the order Sitecore lists them
SitePatterns(site) == IF site = "site" THEN <<S_aSlash, S_bQuery>> ELSE <<S_aSlash>>

\* the redirect lists a site can have: at most MaxRedirects redirects, each
\* pattern at most once
RedirectLists(site) ==
    LET ps == SitePatterns(site)
        Rank(pattern) == CHOOSE n \in DOMAIN ps : ps[n] = pattern
        targets == IF site = "site" THEN Targets ELSE {1}
    IN  {l \in SeqsUpTo([pattern : Range(ps), target : targets], MaxRedirects) :
            \A n \in 1..(Len(l) - 1) : Rank(l[n].pattern) < Rank(l[n + 1].pattern)}

\* Object.keys(edgeConfig || {})
existingKeys(config) == DOMAIN config

\* edgeConfigRedirectItems: one upsert per redirect
edgeConfigRedirectItems(site, redirects) ==
    [n \in DOMAIN redirects |->
        [operation |-> "upsert", key |-> RedirectKey(site, redirects[n]),
         value |-> Serialize(redirects[n])]]

\* newItems that keeps every item
newItemsAll(items, existing) == items

\* newItems: the items whose key is not among the existing keys
newItems(items, existing) == SelectSeq(items, LAMBDA item : item.key \notin existing)

\* removedItems: the existing keys no item has, each to be deleted
removedItems(items, existing) ==
    {key \in existing : \A n \in DOMAIN items : items[n].key # key}

\* [...newItems, ...removedItems]
ItemsSent(site, redirects, config) ==
    LET items == edgeConfigRedirectItems(site, redirects)
    IN  [upsert |-> newItems(items, existingKeys(config)),
         delete |-> removedItems(items, existingKeys(config))]

\* Edge Config after a PATCH with these items was accepted
ApplyItems(config, items) ==
    LET ups == items.upsert
        upKeys == {ups[n].key : n \in DOMAIN ups}
        LastOf(key) == CHOOSE n \in DOMAIN ups :
                          /\ ups[n].key = key
                          /\ \A later \in DOMAIN ups : ups[later].key = key => later <= n
    IN  [key \in ((DOMAIN config) \cup upKeys) \ items.delete |->
            IF key \in upKeys THEN ups[LastOf(key)].value ELSE config[key]]

\* updateEdgeConfig: what it returns for each way the PATCH can end; it
\* catches every exception
updateEdgeConfig(configured, outcome) ==
    IF ~configured THEN "error"
    ELSE IF outcome = "ok" THEN "success"
    ELSE "error"

\* the Bloom filter producer stores a snapshot under the site's name
PublishSnapshot(site) ==
    /\ SnapshotKey(site) \notin DOMAIN edgeConfig
    /\ edgeConfig' = [key \in (DOMAIN edgeConfig) \cup {SnapshotKey(site)} |->
                         IF key = SnapshotKey(site) THEN SnapshotValue ELSE edgeConfig[key]]
    /\ UNCHANGED <<run, filterVars, redirectVars>>

\* handler, step 1: a request arrives; without the environment variables it
\* is answered with status 500
Start(site, configured) ==
    /\ run.pc = "idle"
    /\ run' = IF configured
              THEN [NoRun EXCEPT !.pc = "started", !.site = site]
              ELSE [NoRun EXCEPT !.pc = "done", !.site = site, !.status = 500]
    /\ UNCHANGED <<edgeConfig, filterVars, redirectVars>>

\* handler, step 4: fetchRedirects returns the redirects the site has in
\* Sitecore at this moment
FetchRedirects(redirects) ==
    /\ run.pc = "started"
    /\ redirects \in RedirectLists(run.site)
    /\ run' = [run EXCEPT !.pc = "fetched", !.redirects = redirects]
    /\ UNCHANGED <<edgeConfig, filterVars, redirectVars>>

\* handler, step 4: fetchRedirects throws; the request is answered with
\* status 500
FetchRedirectsThrows ==
    /\ run.pc = "started"
    /\ run' = [run EXCEPT !.pc = "done", !.status = 500]
    /\ UNCHANGED <<edgeConfig, filterVars, redirectVars>>

\* handler, step 5: getAll returns everything in Edge Config, or throws
GetAll(outcome) ==
    /\ run.pc = "fetched"
    /\ run' = IF outcome = "ok"
              THEN [run EXCEPT !.pc = "read", !.config = edgeConfig]
              ELSE [run EXCEPT !.pc = "done", !.status = 500]
    /\ UNCHANGED <<edgeConfig, filterVars, redirectVars>>

\* handler, steps 6 to 8 and the response: the items are computed from what
\* was read, sent with one PATCH, and the result is sent with status 200
Update(outcome) ==
    /\ run.pc = "read"
    /\ LET items == ItemsSent(run.site, run.redirects, run.config)
       IN  /\ edgeConfig' = IF outcome = "ok" THEN ApplyItems(edgeConfig, items)
                            ELSE edgeConfig
           /\ run' = [run EXCEPT !.pc = "done", !.items = items,
                                 !.result = updateEdgeConfig(TRUE, outcome),
                                 !.status = 200]
    /\ UNCHANGED <<filterVars, redirectVars>>

\* the request is over
Respond ==
    /\ run.pc = "done"
    /\ run' = NoRun
    /\ UNCHANGED <<edgeConfig, filterVars, redirectVars>>

\* another request for a site is handled from start to end, with the
\* redirects the site has by then, while the first one is between two of its
\* steps
OtherRun(site, redirects) ==
    /\ run.pc \in {"started", "fetched", "read"}
    /\ edgeConfig' = ApplyItems(edgeConfig, ItemsSent(site, redirects, edgeConfig))
    /\ edgeConfig' # edgeConfig
    /\ UNCHANGED <<run, filterVars, redirectVars>>

InitWebhook ==
    /\ InitFilterVars
    /\ InitRedirectVars
    /\ InitWebhookVars

NextWebhook ==
    \/ PublishSnapshot("site")
    \/ \E site \in Sites, configured \in BOOLEAN : Start(site, configured)
    \/ \E redirects \in RedirectLists("site") \cup RedirectLists("other") :
          FetchRedirects(redirects)
    \/ FetchRedirectsThrows
    \/ \E outcome \in {"ok", "throws"} : GetAll(outcome)
    \/ \E outcome \in {"ok", "notOk", "throws"} : Update(outcome)
    \/ Respond
    \/ \E site \in Sites : \E redirects \in RedirectLists(site) : OtherRun(site, redirects)

SpecWebhook == InitWebhook /\ [][NextWebhook]_vars

(***************************************************************************)
(* Properties of the filter and of createBloomFilter.                      *)
(***************************************************************************)
\* the strings has is asked about
Probes == Keys \cup {S_root, S_b, S_c}

\* g was made from the record createBloomFilter returned for a valid rate
BuiltValid == build.status = "returned" /\ ValidRate(build.rate) /\ g # NullObj

\* C1: no false negatives: a filter reconstructed by fromJSON from what
\* createBloomFilter(S, r) returned, r a valid rate, answers has(x) = true
\* for every x in S.
C1_NoFalseNegatives ==
    BuiltValid => \A x \in Range(build.keys) : has(heap, g, x)

\* C1 witness: a filter rebuilt from the text of a record built from two
\* different keys, which still answers false for some other string
C1_Witness ==
    /\ BuiltValid
    /\ Cardinality(Range(build.keys)) = 2
    /\ g.bitArray # rec.bitArray
    /\ \A x \in Range(build.keys) : has(heap, g, x)
    /\ \E y \in Probes : ~has(heap, g, y)

\* C7: round trip: a filter obtained from f by toJSON and fromJSON, possibly
\* several times over, with the same adds applied to both since, answers
\* has as f does for every string, added or not.
C7_RoundTrip ==
    (f # NullObj /\ g # NullObj /\ gSync) =>
        \A x \in Probes : has(heap, g, x) = has(heap, f, x)

\* C7 witness: after two fromJSON calls g has an array of its own, f has had
\* keys added, and has separates the strings asked about
C7_Witness ==
    /\ f # NullObj /\ g # NullObj /\ gSync
    /\ cycles >= 2
    /\ g.bitArray # f.bitArray
    /\ addedF # {}
    /\ \E x \in Probes : has(heap, g, x)
    /\ \E y \in Probes : ~has(heap, g, y)

\* C8: monotonicity: has(key) is true for every key that was added to a
\* filter, whatever was added after it.
C8_Monotonic ==
    /\ f # NullObj => \A key \in addedF : has(heap, f, key)
    /\ (g # NullObj /\ build.status = "none") => \A key \in addedG : has(heap, g, key)

\* C8 witness: two keys with different bits were added to f, and f still
\* answers false for some string
C8_Witness ==
    /\ f # NullObj
    /\ \E k1 \in addedF, k2 \in addedF :
          getHashes(k1, Len(heap[f.bitArray]), f.hashFunctions)
              # getHashes(k2, Len(heap[f.bitArray]), f.hashFunctions)
    /\ \E y \in Probes : ~has(heap, f, y)

\* g was made from what createBloomFilter([], r) returned, and nothing was
\* added to it
FromEmptyBuild ==
    /\ build.status = "returned" /\ build.keys = <<>> /\ ValidRate(build.rate)
    /\ g # NullObj /\ addedG = {}

\* C9: empty-set safety: createBloomFilter([], r) does not throw, and the
\* filter it gives answers has = false for every non-empty string.
C9_EmptySetSafety ==
    /\ (build.status # "none" /\ build.keys = <<>> /\ ValidRate(build.rate))
          => build.status = "returned"
    /\ FromEmptyBuild => \A x \in Probes \ {S_empty} : ~has(heap, g, x)

\* the inputs of the createBloomFilter call give size 0, a hash count below
\* 1, or an error rate outside (0, 1)
InvalidParameters ==
    LET size == OptimalSize(Len(build.keys), build.rate)
        k == OptimalHashes(size, Len(build.keys))
    IN  \/ ~ValidRate(build.rate)
        \/ size = 0
        \/ ~IsInt(k) \/ k < 1

\* C10: a createBloomFilter call with invalid construction parameters fails
\* and returns no filter.
C10_InvalidRejected ==
    (build.status # "none" /\ InvalidParameters) => build.status = "threw"


(***************************************************************************)
(* Properties of the producer/consumer protocol.                           *)
(***************************************************************************)
\* the last request went through the Bloom filter middleware and its read
\* of the store succeeded
Fetched == last.handled /\ last.variant = "bloom" /\ last.fetch = "ok"

\* ... and the stored value was turned into a filter
Deserialized == Fetched /\ store.kind # "absent" /\ ~FromJSONThrows(store)

\* C2: no missed redirect: a request whose path normalizes, as the producer
\* normalizes its keys, to a key of the published snapshot is not answered
\* without the exact-match lookup.
C2_NoMissedRedirect ==
    (Fetched /\ store.kind = "record" /\ cleanPattern(last.url) \in published)
        => last.lookups >= 1

\* C3: query protocol: with a filter fetched and deserialized, the lookup is
\* skipped and nothing is redirected when has(path) is false, and the lookup
\* is called when has(path) is true; the lookup is called only when has
\* answered true or the filter was absent.
C3_QueryProtocol ==
    /\ Deserialized =>
          IF StoredHas(store, Pathname(last.url))
          THEN last.lookups = 1
          ELSE last.lookups = 0 /\ last.response = "next"
    /\ (last.handled /\ last.variant = "bloom" /\ last.lookups > 0) =>
          \/ Deserialized /\ StoredHas(store, Pathname(last.url))
          \/ Fetched /\ store.kind = "absent"

\* C3 witness: a published filter of some keys answered false for the
\* request's path and the lookup was skipped
C3_Witness ==
    /\ Deserialized /\ store.kind = "record" /\ published # {}
    /\ ~StoredHas(store, Pathname(last.url))
    /\ last.lookups = 0 /\ last.response = "next"

\* C4: absent filter fails open: when nothing is stored under the site's
\* name, the request's exact-match lookup is made exactly once.
C4_AbsentFailsOpen ==
    (Fetched /\ store.kind = "absent") => last.lookups = 1

\* C5: malformed record falls back: when the stored value is no filter
\* record, the request neither fails nor skips the exact-match lookup.
C5_MalformedFallsBack ==
    (Fetched /\ store.kind \in {"badText", "noBitArray", "noHashFunctions"})
        => (last.lookups = 1 /\ ~last.escaped)

\* C6: a failed read of the store never escapes the handler: the request
\* still ends with a response (both middleware variants).
C6_FetchFailureContained ==
    (last.handled /\ last.fetch = "error")
        => (~last.escaped /\ last.response \in {"next", "redirect"})

\* C6 witness: a request of the Bloom filter middleware whose read failed was
\* answered by passing it on
C6_Witness ==
    /\ last.handled /\ last.variant = "bloom" /\ last.fetch = "error"
    /\ last.response = "next" /\ last.lookups = 0


(***************************************************************************)
(* Properties of the hash indices and of the bit state.                    *)
(***************************************************************************)
\* the filters that exist
Filters == {f, g} \ {NullObj}

\* the bit array of a filter
BitsOf(filter) == heap[filter.bitArray]

\* the strings hashed: the probes and two whose hash leaves 31 bits
HashStrings == Probes \cup {S_products, S_poly}

\* C12: hash indices are in range: for every key, every hash function i and
\* every size m >= 1 the index getHashes computes is an integer in [0, m),
\* also when the accumulated 32-bit value is the minimum negative integer.
C12_HashInRange ==
    \A filter \in Filters :
        Len(BitsOf(filter)) >= 1 =>
            \A s \in HashStrings :
                LET hs == getHashes(s, Len(BitsOf(filter)), filter.hashFunctions)
                IN  \A n \in 1..Len(hs) : InRange(hs[n], Len(BitsOf(filter)))

\* C12 witness: a filter of three bits hashes the string whose accumulated
\* value is the minimum integer, and one whose value is negative
C12_Witness ==
    /\ f # NullObj /\ Len(BitsOf(f)) = 3 /\ f.hashFunctions >= 1
    /\ HashAcc(S_poly, 0, 1, <<0, 0>>) = <<32768, 0>>
    /\ IsNegative(HashAcc(S_products, 0, 1, <<0, 0>>))
    /\ getHashes(S_poly, 3, f.hashFunctions)[1] = 2
    /\ S_a \in addedF

\* the bit state that adding the keys of a set gives, whatever the order
BitsOfSet(len, k, keys) ==
    [p \in 1..len |->
        IF \E key \in keys : \E n \in 1..LoopCount(k) : getHashes(key, len, k)[n] = p - 1
        THEN 1 ELSE 0]

\* C13: order independence: the bits after adding keys depend only on the
\* set of keys added, not on the order of the adds nor on how often a key
\* was added (f before any filter shares its array; createBloomFilter's
\* record as returned).
C13_OrderIndependent ==
    /\ (f # NullObj /\ g = NullObj) =>
          BitsOf(f) = BitsOfSet(Len(BitsOf(f)), f.hashFunctions, addedF)
    /\ (build.status = "returned" /\ g = NullObj) =>
          BitsOf(rec) = BitsOfSet(Len(BitsOf(rec)), rec.hashFunctions, Range(build.keys))

\* C13 witness: two keys with different hashes were added to f
C13_Witness ==
    /\ f # NullObj /\ g = NullObj
    /\ \E k1 \in addedF, k2 \in addedF :
          getHashes(k1, Len(BitsOf(f)), f.hashFunctions)
              # getHashes(k2, Len(BitsOf(f)), f.hashFunctions)
    /\ \E p \in DOMAIN BitsOf(f) : BitsOf(f)[p] = 0

\* C14: no aliasing: the bits of the original filter f come from the adds
\* made on f alone; an add on a filter reconstructed from f's record leaves
\* them unchanged.
C14_NoAliasing ==
    f # NullObj => BitsOf(f) = BitsOfSet(Len(BitsOf(f)), f.hashFunctions, addedF)

\* C15: bits are never cleared: in a step that leaves a filter in place (any
\* add or toJSON), each of its bits that is 1 is 1 afterwards.
C15_NeverCleared ==
    [][cycles' = cycles =>
          \A filter \in Filters :
              \A p \in DOMAIN BitsOf(filter) :
                  BitsOf(filter)[p] = 1 => heap'[filter.bitArray][p] = 1]_vars

\* C15 witness: a filter with a set bit had a further key added
C15_Witness ==
    /\ f # NullObj /\ Cardinality(addedF) >= 2
    /\ \E p \in DOMAIN BitsOf(f) : BitsOf(f)[p] = 1
    /\ \E p \in DOMAIN BitsOf(f) : BitsOf(f)[p] = 0

\* what add(key) on a filter may change: the hashed positions become 1, every
\* other bit, the length and hashFunctions stay
AddFrame(filter, key) ==
    LET before == BitsOf(filter)
        after == heap'[filter.bitArray]
        hs == getHashes(key, Len(before), filter.hashFunctions)
    IN  /\ Len(after) = Len(before)
        /\ \A p \in DOMAIN before :
              after[p] = IF \E n \in 1..Len(hs) : hs[n] = p - 1 THEN 1 ELSE before[p]

\* C16: frame of add: add(key) sets the bits at the key's hash indices and
\* changes nothing else; the filter's length and hashFunctions never change.
C16_AddFrame ==
    [][/\ \A key \in Keys :
             /\ AddF(key) => AddFrame(f, key)
             /\ AddG(key) => AddFrame(g, key)
             /\ AddBoth(key) => (AddFrame(f, key) /\ AddFrame(g, key))
       /\ f # NullObj => (f' = f /\ Len(heap'[f.bitArray]) = Len(BitsOf(f)))
       /\ (g # NullObj /\ cycles' = cycles) =>
             (g' = g /\ Len(heap'[g.bitArray]) = Len(BitsOf(g)))]_vars

\* C16 witness: an add on f set some bits and left others
C16_Witness ==
    /\ f # NullObj /\ addedF # {} /\ f.hashFunctions >= 1
    /\ \E p \in DOMAIN BitsOf(f) : BitsOf(f)[p] = 1
    /\ \E p \in DOMAIN BitsOf(f) : BitsOf(f)[p] = 0
    /\ g # NullObj /\ g.bitArray # f.bitArray /\ addedG # addedF

\* every bit at the hash indices of the element is 1
AllBitsOne(filter, element) ==
    LET bits == BitsOf(filter)
        hs == getHashes(element, Len(bits), filter.hashFunctions)
    IN  \A n \in 1..Len(hs) : InRange(hs[n], Len(bits)) /\ bits[hs[n] + 1] = 1

\* C17: has is exact on the bit state: for every filter and string, has
\* answers true if and only if all bits at the string's hash indices are 1.
C17_HasExact ==
    \A filter \in Filters :
        \A s \in HashStrings : has(heap, filter, s) = AllBitsOne(filter, s)


(***************************************************************************)
(* Properties of the redirect webhook.                                     *)
(***************************************************************************)
\* the keys of the redirects a request fetched
RedirectKeys(site, redirects) == {RedirectKey(site, redirects[n]) : n \in DOMAIN redirects}

\* the entries Edge Config holds for a site's redirects
SiteContent(config, site) ==
    [key \in {k \in DOMAIN config : Len(k) = 2 /\ k[1] = site} |-> config[key]]

\* the entries one request computes from the redirects it fetched
ComputedContent(site, redirects) ==
    ApplyItems(<<>>, [upsert |-> edgeConfigRedirectItems(site, redirects), delete |-> {}])

\* the request's PATCH was accepted
Succeeded == run.pc = "done" /\ run.status = 200 /\ run.result = "success"

\* Edge Config is what the request read, changed by its own items only
Undisturbed == edgeConfig = ApplyItems(run.config, run.items)

\* C11: publish is a full replacement with last-writer-wins: whenever a
\* request has written, the site's content in Edge Config is exactly what
\* that request computed from the redirects it fetched; no key or value of an
\* earlier state or of another request is merged in.
C11_FullReplacement ==
    Succeeded => SiteContent(edgeConfig, run.site) = ComputedContent(run.site, run.redirects)

\* C18: key synchronisation: when Edge Config did not change between the
\* request's read and its PATCH, the items sent are one upsert for exactly
\* each redirect key not present and a delete for exactly each existing key
\* without a current redirect, the two key sets are disjoint, and once
\* applied the keys of Edge Config are the keys of the current redirects.
C18_KeySync ==
    [][(run.pc = "read" /\ run'.pc = "done" /\ edgeConfig = run.config) =>
          LET keys == RedirectKeys(run.site, run.redirects)
              ups == run'.items.upsert
              upKeys == {ups[n].key : n \in DOMAIN ups}
          IN  /\ upKeys = keys \ DOMAIN edgeConfig
              /\ Len(ups) = Cardinality(upKeys)
              /\ \A n \in DOMAIN ups :
                    \E r \in DOMAIN run.redirects :
                        /\ ups[n].key = RedirectKey(run.site, run.redirects[r])
                        /\ ups[n].value = Serialize(run.redirects[r])
              /\ run'.items.delete = (DOMAIN edgeConfig) \ keys
              /\ upKeys \cap run'.items.delete = {}
              /\ run'.result = "success" => DOMAIN edgeConfig' = keys]_vars

\* C18 witness: a request that read a store it did not leave as it was sent
\* an upsert and a delete, kept a key that existed, and they were applied
C18_Witness ==
    /\ Succeeded /\ Undisturbed
    /\ run.items.upsert # <<>> /\ run.items.delete # {}
    /\ Len(run.redirects) = 2 /\ Len(run.items.upsert) = 1
    /\ DOMAIN edgeConfig = RedirectKeys(run.site, run.redirects)

\* C19: after a successful request that nothing interfered with, the value
\* stored under the key of every redirect it fetched is that redirect's
\* serialized data, also when the key existed before with other data.
C19_ValuesCurrent ==
    (Succeeded /\ Undisturbed) =>
        \A n \in DOMAIN run.redirects :
            LET key == RedirectKey(run.site, run.redirects[n])
            IN  key \in DOMAIN edgeConfig /\ edgeConfig[key] = Serialize(run.redirects[n])

\* C20: a request for a site deletes only keys of that site's redirects
\* (site name, then hash); never a key of another site nor the entry stored
\* under the bare site name.
C20_DeletesOwnKeysOnly ==
    Succeeded => \A key \in run.items.delete : Len(key) = 2 /\ key[1] = run.site

\* C21: the handler answers with status 200 only when the Edge Config update
\* succeeded; when updateEdgeConfig reports an error or a step throws, the
\* status is not 200.
C21_OkOnlyOnSuccess ==
    (run.pc = "done" /\ run.status = 200) => run.result = "success"

====
